---------------------------- MODULE Spec2Model ----------------------------
(***************************************************************************)
(* FluidC+ (src/fluidc_plus.py): the density propagation of                *)
(* fluidc_modified and the restart loop of fluidc_plus.                    *)
(*                                                                         *)
(* Python dicts whose iteration order is read (seed_set, communities,      *)
(* the Counter) are sequences of <<key, value>> pairs in insertion order;  *)
(* dicts that are only indexed (density, com_to_numvertices,               *)
(* bad_seed_set) are functions.  Densities and votes are exact rationals   *)
(* [num, den]: every float of the program is a sum of terms 1.0/n with     *)
(* n <= |V|, so two votes are either equal or differ by at least           *)
(* 1/|V|^2, far above both the rounding error and the 0.0001 tolerance.    *)
(* The scorer (sklearn's NMI) is external: its value is one of the         *)
(* levels 0..ScoreMax, standing for level/ScoreMax in [0, 1].              *)
(***************************************************************************)
EXTENDS Integers, Sequences, FiniteSets

VARIABLES
  G,                  \* adjacency: G[v] is the sequence of v's neighbours
  k,                  \* number of communities
  max_iter,           \* fluidc_plus's max_iter, passed on to fluidc_modified
  sorted_vertices,    \* the vertices by decreasing degree: the visit order
  seed_set,           \* ordered dict vertex -> community
  bad_seed_set,       \* dict vertex -> community (only the keys are read)
  seed_init_num,      \* number of bad restarts
  iter,               \* number of restarts done
  density,            \* dict community -> density
  com_to_numvertices, \* dict community -> member count
  old_communities,    \* label per vertex of the previous restart, or None
  new_communities,    \* list of groups of the last restart, or None
  nmi_list,           \* scores so far
  min_NMI,            \* running minimum score
  community_idx,      \* re-seeding: community being seeded
  removed_list,       \* re-seeding: members rejected for this community
  communities,        \* fluidc_modified: ordered dict vertex -> community
  iter_count,         \* fluidc_modified: passes started
  cont,               \* fluidc_modified: a label changed in this pass
  pos,                \* fluidc_modified: index in vertices of the next vertex
  best_communities,   \* fluidc_modified: candidates of the last update
  new_com,            \* fluidc_modified: new_com of the last update
  prev_com,           \* fluidc_modified: communities[vertex] read by the last update (-1: KeyError)
  printed,            \* 'Exiting by max iterations!' was printed by the last call
  raised,             \* uncaught exception, or "none"
  pc                  \* "loop", "pass", "score", "reseed", "done", "raised"

vars == <<G, k, max_iter, sorted_vertices, seed_set, bad_seed_set, seed_init_num, iter, density,
          com_to_numvertices, old_communities, new_communities, nmi_list,
          min_NMI, community_idx, removed_list, communities, iter_count, cont,
          pos, best_communities, new_com, prev_com, printed, raised, pc>>

-----------------------------------------------------------------------------
(* Bounds of the model *)

NumVertices == 4

MaxK == 3

MaxIter == 3

ScoreMax == 2

(* Program constants *)

SeedInitCap == 10

ToleranceDen == 10000

None == "None"

Vertices == 0 .. (NumVertices - 1)

-----------------------------------------------------------------------------
(* Rationals *)

RECURSIVE GCD(_, _)
GCD(a, b) == IF b = 0 THEN a ELSE GCD(b, a % b)

Rat(n, d) == LET g == GCD(n, d) IN [num |-> n \div g, den |-> d \div g]

RatAdd(a, b) == Rat(a.num * b.den + b.num * a.den, a.den * b.den)

RatLeq(a, b) == a.num * b.den <= b.num * a.den

max_density == Rat(1, 1)

\* max_density / n for a count n > 0
DensityOf(n) == Rat(max_density.num, max_density.den * n)

\* faulty variant: the operands of the difference swapped
WithinToleranceSwapped(max_freq, freq) ==
  (freq.num * max_freq.den - max_freq.num * freq.den) * ToleranceDen
     < max_freq.den * freq.den

\* (max_freq - freq) < 0.0001
WithinTolerance(max_freq, freq) ==
  (max_freq.num * freq.den - freq.num * max_freq.den) * ToleranceDen
     < max_freq.den * freq.den

-----------------------------------------------------------------------------
(* Ordered dicts *)

Keys(d) == {d[i][1] : i \in 1 .. Len(d)}

Has(d, key) == key \in Keys(d)

Get(d, key) == d[CHOOSE i \in 1 .. Len(d) : d[i][1] = key][2]

Put(d, key, val) ==
  IF Has(d, key)
    THEN [i \in 1 .. Len(d) |-> IF d[i][1] = key THEN <<key, val>> ELSE d[i]]
    ELSE Append(d, <<key, val>>)

\* plain dict d with d[key] = val
Store(d, key, val) ==
  [x \in DOMAIN d \cup {key} |-> IF x = key THEN val ELSE d[x]]

Range(s) == {s[i] : i \in 1 .. Len(s)}

-----------------------------------------------------------------------------
(* The graph *)

Degree(g, v) == Len(g[v])

\* sorted(G.degree, key=lambda x: x[1], reverse=True): by degree, largest
\* first; the sort is stable, so equal degrees stay in node order
RECURSIVE SortByDegree(_, _)
SortByDegree(g, rest) ==
  IF rest = {} THEN <<>>
  ELSE LET first == CHOOSE v \in rest :
                      \A w \in rest :
                        \/ Degree(g, w) < Degree(g, v)
                        \/ Degree(g, w) = Degree(g, v) /\ v <= w
       IN <<first>> \o SortByDegree(g, rest \ {first})

-----------------------------------------------------------------------------
(* fluidc_modified: the updating rule of one vertex *)

\* com_counter.update({com: d})
CounterUpdate(counter, com, d) ==
  IF Has(counter, com)
    THEN Put(counter, com, RatAdd(Get(counter, com), d))
    ELSE Append(counter, <<com, d>>)

\* one vote: communities[v] weighted by its density; a KeyError adds nothing
Vote(counter, v, comms, dens) ==
  IF Has(comms, v) /\ Get(comms, v) \in DOMAIN dens
    THEN CounterUpdate(counter, Get(comms, v), dens[Get(comms, v)])
    ELSE counter

RECURSIVE GatherNeighbours(_, _, _, _, _)
GatherNeighbours(counter, nbrs, i, comms, dens) ==
  IF i > Len(nbrs) THEN counter
  ELSE GatherNeighbours(Vote(counter, nbrs[i], comms, dens), nbrs, i + 1,
                        comms, dens)

\* faulty variant: a vertex without a label gathers no votes
ComCounterSelfGuard(vertex, comms, dens) ==
  IF Has(comms, vertex)
    THEN GatherNeighbours(Vote(<<>>, vertex, comms, dens), G[vertex], 1,
                          comms, dens)
    ELSE <<>>

\* faulty variant: the vertex's own community casts no vote
ComCounterNoSelf(vertex, comms, dens) ==
  GatherNeighbours(<<>>, G[vertex], 1, comms, dens)

ComCounter(vertex, comms, dens) ==
  GatherNeighbours(Vote(<<>>, vertex, comms, dens), G[vertex], 1, comms, dens)

MaxFreq(counter) ==
  LET freqs == {counter[i][2] : i \in 1 .. Len(counter)}
  IN CHOOSE f \in freqs : \A g \in freqs : RatLeq(g, f)

BestCommunities(counter) ==
  LET max_freq == MaxFreq(counter)
      best == SelectSeq(counter, LAMBDA e : WithinTolerance(max_freq, e[2]))
  IN [i \in 1 .. Len(best) |-> best[i][1]]

\* faulty variant: np.argmax, the first index of the greatest value
ArgMax(vals) ==
  CHOOSE i \in 1 .. Len(vals) :
    /\ \A j \in 1 .. Len(vals) : RatLeq(vals[j], vals[i])
    /\ \A j \in 1 .. (i - 1) : ~RatLeq(vals[i], vals[j])

\* np.argmin: the first index of the least value
ArgMin(vals) ==
  CHOOSE i \in 1 .. Len(vals) :
    /\ \A j \in 1 .. Len(vals) : RatLeq(vals[i], vals[j])
    /\ \A j \in 1 .. (i - 1) : ~RatLeq(vals[j], vals[i])

\* lines 100-104; raised is the exception of a density that cannot be computed
SelectCommunity(best, cnt) ==
  IF Len(best) > 1
    THEN IF \E i \in 1 .. Len(best) : best[i] \notin DOMAIN cnt
           THEN [com |-> -1, raised |-> "KeyError"]
         ELSE IF \E i \in 1 .. Len(best) : cnt[best[i]] = 0
           THEN [com |-> -1, raised |-> "ZeroDivisionError"]
         ELSE [com |-> best[ArgMin([i \in 1 .. Len(best) |->
                                      DensityOf(cnt[best[i]])])],
               raised |-> "none"]
    ELSE [com |-> best[1], raised |-> "none"]

\* faulty variant: the count is decremented and the density left as it was
LeaveCommunityStale(dens, cnt, c) ==
  IF c \notin DOMAIN cnt
    THEN [density |-> dens, com_to_numvertices |-> cnt, raised |-> "none"]
    ELSE [density |-> dens, com_to_numvertices |-> [cnt EXCEPT ![c] = @ - 1],
          raised |-> "none"]

\* lines 107-111: the vertex leaves community c
LeaveCommunity(dens, cnt, c) ==
  IF c \notin DOMAIN cnt
    THEN [density |-> dens, com_to_numvertices |-> cnt, raised |-> "none"]
  ELSE LET cnt1 == [cnt EXCEPT ![c] = @ - 1]
       IN IF cnt1[c] = 0
            THEN [density |-> dens, com_to_numvertices |-> cnt1,
                  raised |-> "ZeroDivisionError"]
            ELSE [density |-> Store(dens, c, DensityOf(cnt1[c])),
                  com_to_numvertices |-> cnt1, raised |-> "none"]

\* faulty variant: the density is recomputed and the count left as it was
JoinCommunityStaleCount(dens, cnt, c) ==
  IF c \notin DOMAIN cnt
    THEN [density |-> dens, com_to_numvertices |-> cnt, raised |-> "KeyError"]
    ELSE [density |-> Store(dens, c, DensityOf(cnt[c])),
          com_to_numvertices |-> cnt, raised |-> "none"]

\* lines 114-115: the vertex joins community c
JoinCommunity(dens, cnt, c) ==
  IF c \notin DOMAIN cnt
    THEN [density |-> dens, com_to_numvertices |-> cnt, raised |-> "KeyError"]
  ELSE LET cnt1 == [cnt EXCEPT ![c] = @ + 1]
       IN IF cnt1[c] = 0
            THEN [density |-> dens, com_to_numvertices |-> cnt1,
                  raised |-> "ZeroDivisionError"]
            ELSE [density |-> Store(dens, c, DensityOf(cnt1[c])),
                  com_to_numvertices |-> cnt1, raised |-> "none"]

\* lines 93-115: the vertex changes community
ChangeCommunity(vertex, cur, best, comms, dens, cnt) ==
  LET chosen == SelectCommunity(best, cnt)
      base == [communities |-> comms, density |-> dens,
               com_to_numvertices |-> cnt, cont |-> TRUE,
               best_communities |-> best, new_com |-> -1, prev_com |-> cur,
               raised |-> "none"]
  IN IF chosen.raised # "none"
       THEN [base EXCEPT !.raised = chosen.raised]
     ELSE LET left == IF cur = -1
                        THEN [density |-> dens, com_to_numvertices |-> cnt,
                              raised |-> "none"]
                        ELSE LeaveCommunity(dens, cnt, cur)
          IN IF left.raised # "none"
               THEN [base EXCEPT !.new_com = chosen.com,
                                 !.com_to_numvertices = left.com_to_numvertices,
                                 !.raised = left.raised]
             ELSE LET joined == JoinCommunity(left.density,
                                              left.com_to_numvertices,
                                              chosen.com)
                  IN [base EXCEPT !.new_com = chosen.com,
                                  !.communities = Put(comms, vertex, chosen.com),
                                  !.density = joined.density,
                                  !.com_to_numvertices = joined.com_to_numvertices,
                                  !.raised = joined.raised]

\* lines 67-115: the body of "for vertex in vertices"
UpdatingRule(vertex, comms, dens, cnt, flag) ==
  LET com_counter == ComCounter(vertex, comms, dens)
      cur == IF Has(comms, vertex) THEN Get(comms, vertex) ELSE -1
      keep == [communities |-> comms, density |-> dens,
               com_to_numvertices |-> cnt, cont |-> flag,
               best_communities |-> <<>>, new_com |-> -1, prev_com |-> cur,
               raised |-> "none"]
  IN IF Len(com_counter) = 0 THEN keep
     ELSE LET best == BestCommunities(com_counter)
          IN IF cur # -1 /\ cur \in Range(best)
               THEN [keep EXCEPT !.best_communities = best, !.new_com = cur]
               ELSE ChangeCommunity(vertex, cur, best, comms, dens, cnt)

\* faulty variant: a group is overwritten instead of appended to
RECURSIVE InvertDictOverwrite(_, _, _)
InvertDictOverwrite(orig_dict, i, return_dict) ==
  IF i > Len(orig_dict) THEN return_dict
  ELSE InvertDictOverwrite(orig_dict, i + 1,
                           Put(return_dict, orig_dict[i][2], <<orig_dict[i][1]>>))

\* _invert_dict
RECURSIVE InvertDict(_, _, _)
InvertDict(orig_dict, i, return_dict) ==
  IF i > Len(orig_dict) THEN return_dict
  ELSE LET v == orig_dict[i][1]
           c == orig_dict[i][2]
       IN InvertDict(orig_dict, i + 1,
                     IF Has(return_dict, c)
                       THEN Put(return_dict, c, Append(Get(return_dict, c), v))
                       ELSE Append(return_dict, <<c, <<v>>>>))

DictValues(d) == [i \in 1 .. Len(d) |-> d[i][2]]

\* line 121: list(_invert_dict(communities).values())
GroupCommunities(comms) == DictValues(InvertDict(comms, 1, <<>>))

\* nodes_color
NodesColor(g, groups) ==
  [j \in DOMAIN g |->
     IF \E color \in 1 .. Len(groups) : j \in Range(groups[color])
       THEN (CHOOSE color \in 1 .. Len(groups) :
               /\ j \in Range(groups[color])
               /\ \A c2 \in (color + 1) .. Len(groups) : j \notin Range(groups[c2])) - 1
       ELSE 0]

-----------------------------------------------------------------------------
(* fluidc_plus: inputs *)

AllEdges == {e \in SUBSET Vertices : Cardinality(e) = 2}

Neighbours(E, v) == {w \in Vertices : {v, w} \in E}

\* the members of S in increasing (or decreasing) order
RECURSIVE Ordered(_, _)
Ordered(S, desc) ==
  IF S = {} THEN <<>>
  ELSE LET x == IF desc THEN CHOOSE y \in S : \A z \in S : z <= y
                        ELSE CHOOSE y \in S : \A z \in S : y <= z
       IN <<x>> \o Ordered(S \ {x}, desc)

\* the graphs: nodes 0..NumVertices-1 with any set of edges, the edges added
\* in increasing or in decreasing order (which fixes each G[v]'s order)
Graphs ==
  {[v \in Vertices |-> Ordered(Neighbours(E, v), desc)] :
     E \in SUBSET AllEdges, desc \in BOOLEAN}

\* vertices[:n] after random.shuffle(vertices)
ShuffledPrefixes(n) ==
  {s \in [1 .. n -> Vertices] : \A i, j \in 1 .. n : i # j => s[i] # s[j]}

\* {n: i for i, n in enumerate(vertices[:k])}
EnumerateSeeds(prefix) == [i \in 1 .. Len(prefix) |-> <<prefix[i], i - 1>>]

\* a | b for a plain dict a and an ordered dict b
MergeDict(a, b) ==
  [x \in DOMAIN a \cup Keys(b) |-> IF Has(b, x) THEN Get(b, x) ELSE a[x]]

EmptyDict == <<>>

\* faulty variant: only a community without bookkeeping is initialised
RECURSIVE InitBookkeepingMissing(_, _, _, _)
InitBookkeepingMissing(seeds, i, dens, cnt) ==
  IF i > Len(seeds) THEN [density |-> dens, com_to_numvertices |-> cnt]
  ELSE IF seeds[i][2] \in DOMAIN cnt
    THEN InitBookkeepingMissing(seeds, i + 1, dens, cnt)
    ELSE InitBookkeepingMissing(seeds, i + 1,
                                Store(dens, seeds[i][2], max_density),
                                Store(cnt, seeds[i][2], 1))

\* lines 160-162
RECURSIVE InitBookkeeping(_, _, _, _)
InitBookkeeping(seeds, i, dens, cnt) ==
  IF i > Len(seeds) THEN [density |-> dens, com_to_numvertices |-> cnt]
  ELSE InitBookkeeping(seeds, i + 1, Store(dens, seeds[i][2], max_density),
                       Store(cnt, seeds[i][2], 1))

\* faulty variant: one restart too many
LoopConditionInclusive == seed_init_num < SeedInitCap /\ iter <= max_iter

\* line 157
LoopCondition == seed_init_num < SeedInitCap /\ iter < max_iter

-----------------------------------------------------------------------------
Init ==
  /\ G \in Graphs
  /\ k \in 1 .. MaxK
  /\ max_iter \in 1 .. MaxIter
  /\ sorted_vertices = SortByDegree(G, DOMAIN G)
  /\ \E prefix \in ShuffledPrefixes(k) :
       /\ seed_set = EnumerateSeeds(prefix)
       /\ bad_seed_set = MergeDict(EmptyDict, EnumerateSeeds(prefix))
  /\ seed_init_num = 0
  /\ iter = 0
  /\ density = EmptyDict
  /\ com_to_numvertices = EmptyDict
  /\ old_communities = None
  /\ new_communities = None
  /\ nmi_list = <<>>
  /\ min_NMI = ScoreMax
  /\ community_idx = 0
  /\ removed_list = <<>>
  /\ communities = <<>>
  /\ iter_count = 0
  /\ cont = FALSE
  /\ pos = 1
  /\ best_communities = <<>>
  /\ new_com = -1
  /\ prev_com = -1
  /\ printed = FALSE
  /\ raised = "none"
  /\ pc = "loop"

inputs == <<G, k, max_iter, sorted_vertices>>

controller == <<seed_set, bad_seed_set, seed_init_num, iter, old_communities,
                new_communities, nmi_list, min_NMI, community_idx, removed_list>>

\* lines 157-167 and 57-61: a restart begins and the first pass starts
StartRestart ==
  /\ pc = "loop"
  /\ LoopCondition
  /\ \E b \in {InitBookkeeping(seed_set, 1, density, com_to_numvertices)} :
        /\ density' = b.density
        /\ com_to_numvertices' = b.com_to_numvertices
  /\ communities' = seed_set
  /\ iter_count' = 1
  /\ cont' = FALSE
  /\ pos' = 1
  /\ best_communities' = <<>>
  /\ new_com' = -1
  /\ prev_com' = -1
  /\ printed' = FALSE
  /\ pc' = "pass"
  /\ UNCHANGED <<inputs, controller, raised>>

\* line 203
Finish ==
  /\ pc = "loop"
  /\ ~LoopCondition
  /\ pc' = "done"
  /\ UNCHANGED <<inputs, controller, density, com_to_numvertices, communities,
                 iter_count, cont, pos, best_communities, new_com, prev_com,
                 printed, raised>>

\* lines 66-115, one vertex
UpdateVertex ==
  /\ pc = "pass"
  /\ pos <= Len(sorted_vertices)
  /\ \E r \in {UpdatingRule(sorted_vertices[pos], communities, density,
                              com_to_numvertices, cont)} :
        /\ communities' = r.communities
        /\ density' = r.density
        /\ com_to_numvertices' = r.com_to_numvertices
        /\ cont' = r.cont
        /\ best_communities' = r.best_communities
        /\ new_com' = r.new_com
        /\ prev_com' = r.prev_com
        /\ raised' = r.raised
        /\ pc' = IF r.raised = "none" THEN "pass" ELSE "raised"
  /\ pos' = pos + 1
  /\ UNCHANGED <<inputs, controller, iter_count, printed>>

\* line 117
MaxIterReached == iter_count > max_iter

\* lines 120-121 and 166
ReturnGroups ==
  /\ new_communities' = GroupCommunities(communities)
  /\ pc' = "score"
  /\ UNCHANGED <<inputs, seed_set, bad_seed_set, seed_init_num, iter,
                 old_communities, nmi_list, min_NMI, community_idx,
                 removed_list, density, com_to_numvertices, communities,
                 iter_count, cont, pos, best_communities, new_com, prev_com,
                 raised>>

\* lines 117-119: the cap ends the call
ExitByMaxIterations ==
  /\ pc = "pass"
  /\ pos > Len(sorted_vertices)
  /\ MaxIterReached
  /\ printed' = TRUE
  /\ ReturnGroups

\* line 59 with cont false: the pass was stable
Converged ==
  /\ pc = "pass"
  /\ pos > Len(sorted_vertices)
  /\ ~MaxIterReached
  /\ ~cont
  /\ printed' = printed
  /\ ReturnGroups

\* lines 59-61: another pass
NextPass ==
  /\ pc = "pass"
  /\ pos > Len(sorted_vertices)
  /\ ~MaxIterReached
  /\ cont
  /\ cont' = FALSE
  /\ iter_count' = iter_count + 1
  /\ pos' = 1
  /\ UNCHANGED <<inputs, controller, density, com_to_numvertices, communities,
                 best_communities, new_com, prev_com, printed, raised, pc>>

\* lines 183-185
NewSeedSet ==
  /\ seed_set' = <<>>
  /\ community_idx' = 0
  /\ removed_list' = <<>>
  /\ pc' = "reseed"

\* lines 170-185 in the first restart: no score
ScoreFirst ==
  /\ pc = "score"
  /\ iter = 0
  /\ old_communities' = NodesColor(G, new_communities)
  /\ NewSeedSet
  /\ UNCHANGED <<inputs, bad_seed_set, seed_init_num, iter, new_communities,
                 nmi_list, min_NMI, density, com_to_numvertices, communities,
                 iter_count, cont, pos, best_communities, new_com, prev_com,
                 printed, raised>>

\* faulty variant: a score equal to the minimum counts as bad
IsBadRestartInclusive(NMI, minimum) == NMI <= minimum

\* line 174
IsBadRestart(NMI, minimum) == NMI < minimum

\* lines 170-185 in a later restart
ScoreLater ==
  /\ pc = "score"
  /\ iter # 0
  /\ \E NMI \in 0 .. ScoreMax :
       /\ nmi_list' = Append(nmi_list, NMI)
       /\ IF IsBadRestart(NMI, min_NMI)
            THEN /\ bad_seed_set' = MergeDict(bad_seed_set, seed_set)
                 /\ seed_init_num' = seed_init_num + 1
                 /\ min_NMI' = NMI
            ELSE UNCHANGED <<bad_seed_set, seed_init_num, min_NMI>>
  /\ old_communities' = NodesColor(G, new_communities)
  /\ NewSeedSet
  /\ UNCHANGED <<inputs, iter, new_communities, density, com_to_numvertices,
                 communities, iter_count, cont, pos, best_communities, new_com,
                 prev_com, printed, raised>>

\* line 189
CurrentCommunity ==
  Range(new_communities[community_idx + 1]) \ Range(removed_list)

\* faulty variant: the history's values are searched instead of its keys
IsBadSeedByValue(v, history) == v \in {history[x] : x \in DOMAIN history}

\* line 194
IsBadSeed(v, history) == v \in DOMAIN history

engine == <<density, com_to_numvertices, communities, iter_count, cont, pos,
            best_communities, new_com, prev_com, printed, raised>>

\* lines 186-195: the drawn vertex is a bad seed
RejectSeed ==
  /\ pc = "reseed"
  /\ community_idx < Len(new_communities)
  /\ \E new_v \in CurrentCommunity :
       /\ IsBadSeed(new_v, bad_seed_set)
       /\ removed_list' = Append(removed_list, new_v)
  /\ UNCHANGED <<inputs, engine, seed_set, bad_seed_set, seed_init_num, iter,
                 old_communities, new_communities, nmi_list, min_NMI,
                 community_idx, pc>>

\* lines 186-199: the drawn vertex seeds the community
AcceptSeed ==
  /\ pc = "reseed"
  /\ community_idx < Len(new_communities)
  /\ \E new_v \in CurrentCommunity :
       /\ ~IsBadSeed(new_v, bad_seed_set)
       /\ seed_set' = Put(seed_set, new_v, community_idx)
  /\ removed_list' = <<>>
  /\ community_idx' = community_idx + 1
  /\ UNCHANGED <<inputs, engine, bad_seed_set, seed_init_num, iter,
                 old_communities, new_communities, nmi_list, min_NMI, pc>>

\* faulty variant: the count is set just below the cap
ExhaustedCountBelowCap == SeedInitCap - 1

\* line 191
ExhaustedCount == SeedInitCap

\* lines 190-192 and 201: no candidate is left
SeedExhausted ==
  /\ pc = "reseed"
  /\ community_idx < Len(new_communities)
  /\ CurrentCommunity = {}
  /\ seed_init_num' = ExhaustedCount
  /\ iter' = iter + 1
  /\ pc' = "loop"
  /\ UNCHANGED <<inputs, engine, seed_set, bad_seed_set, old_communities,
                 new_communities, nmi_list, min_NMI, community_idx,
                 removed_list>>

\* lines 186 and 201: every community has its seed
EndReseed ==
  /\ pc = "reseed"
  /\ community_idx >= Len(new_communities)
  /\ iter' = iter + 1
  /\ pc' = "loop"
  /\ UNCHANGED <<inputs, engine, seed_set, bad_seed_set, seed_init_num,
                 old_communities, new_communities, nmi_list, min_NMI,
                 community_idx, removed_list>>

Next ==
  \/ StartRestart
  \/ UpdateVertex
  \/ NextPass
  \/ Converged
  \/ ExitByMaxIterations
  \/ ScoreFirst
  \/ ScoreLater
  \/ RejectSeed
  \/ AcceptSeed
  \/ SeedExhausted
  \/ EndReseed
  \/ Finish

Spec == Init /\ [][Next]_vars

-----------------------------------------------------------------------------
(* Definitions used by the properties *)

\* the vertex of the last update
LastVertex ==
  IF pos = 1 THEN sorted_vertices[Len(sorted_vertices)]
  ELSE sorted_vertices[pos - 1]

\* the vertices reachable from the set S
RECURSIVE Reach(_, _)
Reach(g, S) ==
  LET T == S \cup {w \in DOMAIN g : \E v \in S : w \in Range(g[v])}
  IN IF T = S THEN S ELSE Reach(g, T)

Connected(g) == \A v \in DOMAIN g : Reach(g, {v}) = DOMAIN g

\* the number of places of the groups that hold v
Occurrences(groups, v) ==
  Cardinality({p \in (1 .. Len(groups)) \X (1 .. NumVertices) :
                 p[2] <= Len(groups[p[1]]) /\ groups[p[1]][p[2]] = v})

Members(comms, c) == {v \in Keys(comms) : Get(comms, v) = c}

InEngine == pc \in {"pass", "score"}

\* C1: during a run of fluidc_modified, after every vertex update, every
\* community with a positive member count has density max_density / count.
C1_DensityMatchesCount ==
  InEngine =>
    \A c \in DOMAIN com_to_numvertices :
      com_to_numvertices[c] > 0 =>
        /\ c \in DOMAIN density
        /\ density[c] = DensityOf(com_to_numvertices[c])

\* a labelled vertex has just moved to another community, whose count is now
\* at least 2 and whose old community keeps members
C1_Witness ==
  /\ pc = "pass"
  /\ prev_com # -1
  /\ new_com # prev_com
  /\ new_com # -1
  /\ com_to_numvertices[new_com] >= 2
  /\ com_to_numvertices[prev_com] >= 1

\* C2: on a connected graph, when fluidc_modified returns after a stable
\* pass (cont is false), every vertex is in exactly one returned group.
C2_StableReturnLabelsAll ==
  (pc = "score" /\ ~cont /\ Connected(G)) =>
    \A v \in DOMAIN G : Occurrences(new_communities, v) = 1

\* a connected graph, a stable return, and vertices that were not seeds
C2_Witness ==
  /\ pc = "score"
  /\ ~cont
  /\ Connected(G)
  /\ Len(seed_set) < NumVertices
  /\ \A v \in DOMAIN G : Occurrences(new_communities, v) = 1

\* C3 (as claimed): fluidc_modified performs at most max_iter passes over
\* vertices.
C3_AtMostMaxIterPasses ==
  InEngine => iter_count <= max_iter

\* C4: when the last update had several candidates and the vertex's label
\* was not among them, the vertex adopted a candidate whose member count
\* before the update was the largest of the candidates' counts; when its
\* label was among the candidates, the label was kept.
C4_TieBreakLargestCount ==
  InEngine =>
    /\ (Len(best_communities) > 1 /\ prev_com \notin Range(best_communities)) =>
         /\ new_com \in Range(best_communities)
         /\ Get(communities, LastVertex) = new_com
         /\ \A b \in Range(best_communities) \ {new_com} :
              com_to_numvertices[b] <= com_to_numvertices[new_com] - 1
    /\ prev_com \in Range(best_communities) =>
         /\ new_com = prev_com
         /\ Get(communities, LastVertex) = prev_com

\* a tie between candidates of different counts, decided by the count
C4_Witness ==
  /\ pc = "pass"
  /\ Len(best_communities) > 1
  /\ prev_com \notin Range(best_communities)
  /\ \E b \in Range(best_communities) \ {new_com} :
       com_to_numvertices[b] < com_to_numvertices[new_com] - 1

\* the seed set in hand has been derived by the re-seeding step
SeedSetDerived == pc = "reseed" \/ iter >= 1

\* C5: the bad-seed history never loses a vertex, and no seed derived by
\* the re-seeding step is in the history.
C5_BadSeedsBarred ==
  [][/\ DOMAIN bad_seed_set \subseteq DOMAIN bad_seed_set'
     /\ SeedSetDerived' => Keys(seed_set') \cap DOMAIN bad_seed_set' = {}]_vars

\* a second seed set has been derived after a bad restart enlarged the history
C5_Witness ==
  /\ pc = "loop"
  /\ iter >= 2
  /\ seed_init_num = 1
  /\ Cardinality(DOMAIN bad_seed_set) = 2 * k
  /\ Len(seed_set) = k

AllScoresZero == \A i \in 1 .. Len(nmi_list) : nmi_list[i] = 0

\* C6 (as claimed): with max_iter = 1 and every score 0, fluidc_plus ends
\* after exactly 10 restarts with seed_init_num at its cap.
C6_TenRestarts ==
  (pc = "done" /\ max_iter = 1 /\ AllScoresZero) =>
    (iter = SeedInitCap /\ seed_init_num = SeedInitCap)

\* the re-seeding step ran out of candidates for community community_idx
Exhausted ==
  /\ iter >= 1
  /\ pc # "reseed"
  /\ community_idx < Len(new_communities)

\* C6 (amended): with max_iter = 1 fluidc_plus raises nothing and ends after
\* exactly one restart; no score is computed, seed_init_num is 0 unless the
\* re-seeding step ran out of candidates (then 10), and the value returned
\* is that restart's partition.
C6_OneRestart ==
  max_iter = 1 =>
    /\ pc # "raised"
    /\ iter <= 1
    /\ pc = "done" =>
         /\ iter = 1
         /\ nmi_list = <<>>
         /\ seed_init_num = (IF Exhausted THEN SeedInitCap ELSE 0)
         /\ new_communities = GroupCommunities(communities)

\* max_iter = 1, the run is over and no bad restart was counted
C6_Witness ==
  /\ pc = "done"
  /\ max_iter = 1
  /\ iter = 1
  /\ seed_init_num = 0

Ring == {{0, 1}, {1, 2}, {2, 3}, {3, 0}}

RingScenario ==
  /\ DOMAIN G = 0 .. 3
  /\ \A v \in 0 .. 3 : Range(G[v]) = {w \in 0 .. 3 : {v, w} \in Ring}
  /\ iter = 0
  /\ pc \in {"pass", "score", "raised"}
  /\ {0, 2} \subseteq Keys(communities)
  /\ seed_set = <<<<0, 0>>, <<2, 1>>>>
  /\ sorted_vertices = <<0, 1, 2, 3>>

GroupSets(groups) == [i \in 1 .. Len(groups) |-> Range(groups[i])]

C8_OrderedByCommunityId ==
  pc = "score" =>
    /\ Len(new_communities) = k
    /\ \A i \in 0 .. (k - 1) :
         Range(new_communities[i + 1]) = Members(communities, i)

\* the label of the i-th group: the label of its first vertex
GroupLabel(i) == Get(communities, new_communities[i][1])

SeedsKeptLabels ==
  \A i \in 1 .. Len(seed_set) : Get(communities, seed_set[i][1]) = seed_set[i][2]

\* C8 (amended): the returned list holds one group per community 0..k-1,
\* each holding exactly the vertices with that final label; the groups
\* are in the order in which their labels first appear in the labelling's
\* insertion order (the seeds first), which is the order of the community
\* ids when no seed vertex has changed community.
C8_GroupedByFirstAppearance ==
  pc = "score" =>
    /\ Len(new_communities) = k
    /\ \A i \in 1 .. k :
         /\ new_communities[i] # <<>>
         /\ GroupLabel(i) \in 0 .. (k - 1)
         /\ Range(new_communities[i]) = Members(communities, GroupLabel(i))
         /\ \A j \in 1 .. k : i # j => GroupLabel(i) # GroupLabel(j)
         /\ \A j \in 1 .. k :
              i < j =>
                (CHOOSE p \in 1 .. Len(communities) :
                   /\ communities[p][2] = GroupLabel(i)
                   /\ \A q \in 1 .. (p - 1) : communities[q][2] # GroupLabel(i))
                <
                (CHOOSE p \in 1 .. Len(communities) :
                   /\ communities[p][2] = GroupLabel(j)
                   /\ \A q \in 1 .. (p - 1) : communities[q][2] # GroupLabel(j))
    /\ SeedsKeptLabels => \A i \in 1 .. k : GroupLabel(i) = i - 1

\* a seed vertex has changed community and the groups are not in id order
C8_Witness ==
  /\ pc = "score"
  /\ ~SeedsKeptLabels
  /\ \E i \in 1 .. k : GroupLabel(i) # i - 1

\* C9: once the re-seeding step has run out of candidates, nothing is
\* raised, seed_init_num is 10, fluidc_modified is not called again, and
\* new_communities stays the partition of the restart in which it happened.
C9_ExhaustionEndsRun ==
  Exhausted =>
    /\ seed_init_num = SeedInitCap
    /\ pc \in {"loop", "done"}
    /\ raised = "none"
    /\ new_communities = GroupCommunities(communities)

\* exhaustion after the first restart with max_iter allowing another one
C9_Witness ==
  /\ Exhausted
  /\ pc = "done"
  /\ iter < max_iter
  /\ Len(seed_set) < k

\* fluidc_modified has just been called
Invoked == pc = "pass" /\ iter_count = 1 /\ pos = 1

\* C10: at every call of fluidc_modified the seed set holds exactly k
\* distinct vertices, one for each community id 0..k-1, and every
\* community's count is 1 and its density max_density.
C10_SeedSetAtInvocation ==
  Invoked =>
    /\ Len(seed_set) = k
    /\ Cardinality(Keys(seed_set)) = k
    /\ {seed_set[i][2] : i \in 1 .. Len(seed_set)} = 0 .. (k - 1)
    /\ communities = seed_set
    /\ DOMAIN com_to_numvertices = 0 .. (k - 1)
    /\ DOMAIN density = 0 .. (k - 1)
    /\ \A c \in 0 .. (k - 1) :
         com_to_numvertices[c] = 1 /\ density[c] = max_density

\* a later call, after a restart that grew some community
C10_Witness ==
  /\ Invoked
  /\ iter >= 1
  /\ k = 2
  /\ \E i \in 1 .. Len(new_communities) : Len(new_communities[i]) >= 2

\* the least of ScoreMax (the score 1.0) and the scores of a list
MinScore(scores) ==
  LET all == {ScoreMax} \cup Range(scores)
  IN CHOOSE m \in all : \A x \in all : m <= x

\* the restart's partition is being scored (lines 169-179)
ScoringStep == pc = "score" /\ pc' = "reseed"

\* C11: the first restart records no score and leaves seed_init_num,
\* min_NMI and the history alone; a later restart records one score, and
\* exactly when it is strictly below min_NMI it adds 1 to seed_init_num,
\* merges the seed set into the history and becomes min_NMI (a score
\* equal to min_NMI changes nothing); after every restart min_NMI is the
\* least of 1.0 and the scores recorded so far.
C11_BadRestartCounting ==
  [][ScoringStep =>
       /\ min_NMI' = MinScore(nmi_list')
       /\ IF iter = 0
            THEN /\ nmi_list' = nmi_list
                 /\ seed_init_num' = seed_init_num
                 /\ min_NMI' = min_NMI
                 /\ bad_seed_set' = bad_seed_set
            ELSE /\ Len(nmi_list') = Len(nmi_list) + 1
                 /\ SubSeq(nmi_list', 1, Len(nmi_list)) = nmi_list
                 /\ IF nmi_list'[Len(nmi_list')] < min_NMI
                      THEN /\ seed_init_num' = seed_init_num + 1
                           /\ min_NMI' = nmi_list'[Len(nmi_list')]
                           /\ DOMAIN bad_seed_set' =
                                DOMAIN bad_seed_set \cup Keys(seed_set)
                      ELSE /\ seed_init_num' = seed_init_num
                           /\ min_NMI' = min_NMI
                           /\ bad_seed_set' = bad_seed_set]_vars

\* two restarts scored alike below 1.0: the first one bad, the second not
C11_Witness ==
  /\ pc = "reseed"
  /\ Len(nmi_list) = 2
  /\ nmi_list[1] = nmi_list[2]
  /\ nmi_list[1] < ScoreMax
  /\ min_NMI = nmi_list[1]
  /\ seed_init_num = 1

\* C12: in a run of the engine started from one seed per community with
\* every count 1, no count drops to 0: the last member of a community
\* keeps its label, so no density is divided by zero and the engine
\* returns exactly k groups, none of them empty.
C12_NoEmptyCommunity ==
  /\ pc # "raised"
  /\ raised = "none"
  /\ InEngine =>
       /\ DOMAIN com_to_numvertices = 0 .. (k - 1)
       /\ \A c \in 0 .. (k - 1) :
            /\ com_to_numvertices[c] >= 1
            /\ Members(communities, c) # {}
  /\ pc = "score" =>
       /\ Len(new_communities) = k
       /\ \A i \in 1 .. k : Len(new_communities[i]) >= 1

\* the last member of a community was visited while another community's
\* vote equalled its own, and kept its label
C12_Witness ==
  /\ pc = "pass"
  /\ prev_com # -1
  /\ com_to_numvertices[prev_com] = 1
  /\ Len(best_communities) > 1
  /\ new_com = prev_com

\* the sum of the counts of the communities 0 .. c
RECURSIVE SumCounts(_, _)
SumCounts(cnt, c) ==
  IF c < 0 THEN 0
  ELSE (IF c \in DOMAIN cnt THEN cnt[c] ELSE 0) + SumCounts(cnt, c - 1)

\* C13: during a run of the engine, after every completed vertex update
\* com_to_numvertices[c] is the number of vertices labelled c, for every
\* community c, and the counts add up to the number of labelled vertices.
C13_CountsMatchLabels ==
  InEngine =>
    /\ \A i \in 1 .. Len(communities) :
         communities[i][2] \in DOMAIN com_to_numvertices
    /\ \A c \in DOMAIN com_to_numvertices :
         com_to_numvertices[c] = Cardinality(Members(communities, c))
    /\ SumCounts(com_to_numvertices, k - 1) = Len(communities)

\* in a later restart a labelled vertex has just moved to another
\* community, which now counts two vertices
C13_Witness ==
  /\ pc = "pass"
  /\ iter >= 1
  /\ prev_com # -1
  /\ new_com # -1
  /\ new_com # prev_com
  /\ Cardinality(Members(communities, new_com)) = 2
  /\ com_to_numvertices[new_com] = 2

=============================================================================
